---------------------------- MODULE Spec2Model ----------------------------
(***************************************************************************)
(* A model of morgango/generate_logs: the event coordinator of             *)
(* event_generation_example.py, the generator classes of log_generators.py *)
(* and the run schedulers of generate_logs.py and enhanced_cli_example.py. *)
(*                                                                         *)
(* Python values are modelled as follows.  A str that the code slices or   *)
(* splits (an event's start_time) is a sequence of one-character strings;  *)
(* other strs are TLA+ strings.  A dict is a function on its keys.  None   *)
(* is the record None.  A datetime is a number of seconds counted from     *)
(* midnight of the day of the run's start.  A call that raises yields a    *)
(* record whose field exc names the exception.                             *)
(***************************************************************************)
EXTENDS Integers, Sequences, FiniteSets, TLC

VARIABLES
    events,        \* EventCoordinator.events: the list of EventConfig
    start_time,    \* EventCoordinator.start_time
    event_state,   \* EventCoordinator.event_state: event id -> state dict
    now,           \* the wall clock handed to the generators as current_time
    task_pc,       \* concurrent callers of record_log_generated: where each is
    task_fmt,      \*   the format_type of the call a task is in
    task_tmp,      \*   the counter value a task has read and not yet written back
    calls_made,    \*   format -> the calls of record_log_generated begun so far
    impl,          \* the module whose LogGenerator runs
    request,       \* the format asked for, or "all"
    lines_per_format,  \* LogGenerator.lines_per_format
    fault,         \* the job whose append raises, or 0
    main_pc,       \* where the thread that called the scheduler is
    job,           \* the state of each submitted job, in submission order
    written,       \* format -> the lines of it appended to the output file
    status_log,    \* what the scheduler logged: failures and completion
    writer_pc,     \* concurrent generators at the sink: where each is
    writer_line,   \*   the line a writer is at
    writer_dest,   \*   the destination of its current write
    lock_holder,   \* the thread holding the shared lock, or 0
    files,         \* destination -> the pieces appended to it
    dur_module,    \* the module whose run_with_duration runs
    duration,      \* its duration_seconds argument
    pause_seconds, \* LogGenerator.pause_seconds
    dur_pc,        \* where run_with_duration is
    expired,       \* whether time.time() has reached end_time
    iteration,     \* the local variable iteration
    iterations_started,    \* the iterations that were started
    iterations_completed,  \* the iterations whose run returned
    late_starts,   \* the iterations started after the deadline
    remained_after,  \* the iterations after which time remained
    slept_after,   \* the iterations after which time.sleep was called
    reported,      \* the iteration count logged at the end
    synth_module,  \* the module whose _randint is called
    synth_low,     \* its first argument
    synth_high,    \* its second argument
    synth_pc,      \* where the call is
    synth_value,   \* the value the call returned
    call_args,     \* a call of a method of a generator: its arguments
    call_pc,       \*   where the call is
    call_result    \*   what it returned

coordVars == <<events, start_time, event_state, now>>
raceVars == <<task_pc, task_fmt, task_tmp, calls_made>>
runVars == <<impl, request, lines_per_format, fault, main_pc, job, written,
             status_log>>
sinkVars == <<writer_pc, writer_line, writer_dest, lock_holder, files>>
durVars == <<dur_module, duration, pause_seconds, dur_pc, expired, iteration,
             iterations_started, iterations_completed, late_starts,
             remained_after, slept_after, reported>>
synthVars == <<synth_module, synth_low, synth_high, synth_pc, synth_value>>
callVars == <<call_args, call_pc, call_result>>

\* what the actions of each part leave alone
besideCoord == <<raceVars, runVars, sinkVars, durVars, synthVars, callVars>>
besideRace == <<runVars, sinkVars, durVars, synthVars, callVars>>
besideRun == <<coordVars, raceVars, sinkVars, durVars, synthVars, callVars>>
besideSink == <<coordVars, raceVars, runVars, durVars, synthVars, callVars>>
besideDur == <<coordVars, raceVars, sinkVars, synthVars, callVars>>
besideSynth == <<coordVars, raceVars, runVars, sinkVars, durVars, callVars>>
besideCall == <<coordVars, raceVars, runVars, sinkVars, durVars, synthVars>>
besidePool == <<coordVars, raceVars, durVars, synthVars, callVars>>
besideCalls == <<raceVars, runVars, sinkVars, durVars, synthVars>>

----------------------------------------------------------------------------
(* Python values *)

None == [py_none |-> TRUE]

\* getattr(obj, name, default)
GetAttr(obj, name, default) == IF name \in DOMAIN obj THEN obj[name] ELSE default

\* the truth value of `config and config.get(key)` for an Optional[Dict] of ints
TruthyGet(config, key) ==
    /\ config # None
    /\ DOMAIN config # {}
    /\ key \in DOMAIN config
    /\ config[key] # 0

DigitVal ==
    [c \in {"0", "1", "2", "3", "4", "5", "6", "7", "8", "9"} |->
        CASE c = "0" -> 0 [] c = "1" -> 1 [] c = "2" -> 2 [] c = "3" -> 3
          [] c = "4" -> 4 [] c = "5" -> 5 [] c = "6" -> 6 [] c = "7" -> 7
          [] c = "8" -> 8 [] c = "9" -> 9]

IsDigits(s) == Len(s) > 0 /\ \A i \in 1..Len(s) : s[i] \in DOMAIN DigitVal

RECURSIVE DigitsValue(_)
DigitsValue(s) ==
    IF Len(s) = 0 THEN 0
    ELSE 10 * DigitsValue(SubSeq(s, 1, Len(s) - 1)) + DigitVal[s[Len(s)]]

\* int(s) for a str s: an optional sign and decimal digits, ValueError otherwise
PyInt(s) ==
    IF IsDigits(s) THEN [exc |-> "none", val |-> DigitsValue(s)]
    ELSE IF Len(s) > 1 /\ s[1] \in {"+", "-"} /\ IsDigits(Tail(s))
    THEN [exc |-> "none",
          val |-> IF s[1] = "-" THEN 0 - DigitsValue(Tail(s)) ELSE DigitsValue(Tail(s))]
    ELSE [exc |-> "ValueError", val |-> 0]

\* s.split(sep) for a one-character sep
RECURSIVE PySplit(_, _)
PySplit(s, sep) ==
    IF Len(s) = 0 THEN << <<>> >>
    ELSE LET rest == PySplit(Tail(s), sep)
         IN  IF Head(s) = sep THEN << <<>> >> \o rest
             ELSE << <<Head(s)>> \o Head(rest) >> \o Tail(rest)

\* the slice that keeps the last character: start_time_str[1:]
SliceFrom1(s) == SubSeq(s, 2, Len(s))

\* s[1:-1]
Slice1ToLast(s) == SubSeq(s, 2, Len(s) - 1)

\* x in lst, for a list
InList(x, lst) == \E i \in 1..Len(lst) : lst[i] = x

SecondsPerMinute == 60
SecondsPerHour == 3600

----------------------------------------------------------------------------
(* EventCoordinator *)

\* f"{format_type}_logs_generated"
FormatKey(format_type) == format_type \o "_logs_generated"

\* f"{format_type}_config"
ConfigAttr(format_type) == format_type \o "_config"

\* EventCoordinator._parse_start_time
ParseStartTime(start_time_str, run_start) ==
    IF Len(start_time_str) > 0 /\ start_time_str[1] = "+"
    THEN LET minutes == PyInt(Slice1ToLast(start_time_str))
         IN  IF minutes.exc # "none" THEN [exc |-> minutes.exc, t |-> 0]
             ELSE [exc |-> "none", t |-> run_start + SecondsPerMinute * minutes.val]
    ELSE LET parts == PySplit(start_time_str, ":")
             ints  == [i \in 1..Len(parts) |-> PyInt(parts[i])]
         IN  IF \E i \in 1..Len(parts) : ints[i].exc # "none"
             THEN [exc |-> "ValueError", t |-> 0]
             ELSE IF Len(parts) # 3 THEN [exc |-> "ValueError", t |-> 0]
             ELSE IF ~ /\ ints[1].val \in 0..23
                       /\ ints[2].val \in 0..59
                       /\ ints[3].val \in 0..59
             THEN [exc |-> "ValueError", t |-> 0]
             ELSE [exc |-> "none",
                   t |-> SecondsPerHour * ints[1].val
                         + SecondsPerMinute * ints[2].val + ints[3].val]

\* a window test that forgets the end of the window
InWindowNoEnd(event_start, current_time, event_end) ==
    event_start <= current_time

\* `event_start <= current_time <= event_end` of get_active_event
InWindow(event_start, current_time, event_end) ==
    event_start <= current_time /\ current_time <= event_end

\* a cap test that is off by one
LimitReachedOffByOne(generated, max_logs) == generated > max_logs

\* `state[format_key] >= max_logs` of get_active_event
LimitReached(generated, max_logs) == generated >= max_logs

\* the loop of EventCoordinator.get_active_event, from the i-th event on;
\* yields the position of the returned event in self.events, 0 for None
RECURSIVE ActiveEventFrom(_, _, _, _, _, _)
ActiveEventFrom(i, evts, st, run_start, format_type, current_time) ==
    IF i > Len(evts) THEN [exc |-> "none", ev |-> 0]
    ELSE
    LET event       == evts[i]
        event_start == ParseStartTime(event.start_time, run_start)
        event_end   == event_start.t + event.duration_seconds
        state       == st[event.id]
        format_key  == FormatKey(format_type)
        config      == GetAttr(event, ConfigAttr(format_type), None)
        next        == ActiveEventFrom(i + 1, evts, st, run_start,
                                       format_type, current_time)
    IN  IF event_start.exc # "none" THEN [exc |-> event_start.exc, ev |-> 0]
        ELSE IF ~ InWindow(event_start.t, current_time, event_end) THEN next
        ELSE IF ~ InList(format_type, event.affected_formats) THEN next
        ELSE IF ~ TruthyGet(config, "total_logs") THEN [exc |-> "none", ev |-> i]
        ELSE IF format_key \notin DOMAIN state THEN [exc |-> "KeyError", ev |-> 0]
        ELSE IF LimitReached(state[format_key], config["total_logs"]) THEN next
        ELSE [exc |-> "none", ev |-> i]

\* the same loop over the events from the last declared to the first
RECURSIVE ActiveEventDownFrom(_, _, _, _, _, _)
ActiveEventDownFrom(i, evts, st, run_start, format_type, current_time) ==
    IF i < 1 THEN [exc |-> "none", ev |-> 0]
    ELSE LET one == ActiveEventFrom(1, <<evts[i]>>, st, run_start,
                                    format_type, current_time)
         IN  IF one.exc # "none" THEN one
             ELSE IF one.ev = 1 THEN [exc |-> "none", ev |-> i]
             ELSE ActiveEventDownFrom(i - 1, evts, st, run_start,
                                      format_type, current_time)

\* get_active_event with the last declared event winning
get_active_event_last_wins(evts, st, run_start, format_type, current_time) ==
    ActiveEventDownFrom(Len(evts), evts, st, run_start, format_type, current_time)

\* a get_active_event that looks at the wall clock, not at current_time
get_active_event_by_clock(evts, st, run_start, format_type, current_time) ==
    ActiveEventFrom(1, evts, st, run_start, format_type, now)

\* EventCoordinator.get_active_event
get_active_event(evts, st, run_start, format_type, current_time) ==
    ActiveEventFrom(1, evts, st, run_start, format_type, current_time)

\* the state dict EventCoordinator.__init__ gives every event
InitialEventState ==
    [apache_logs_generated |-> 0, nginx_logs_generated |-> 0,
     started |-> FALSE, ended |-> FALSE]

\* EventCoordinator.record_log_generated: the dict after the call, or the
\* KeyError of a missing key
record_log_generated(st, event_id, format_type) ==
    IF event_id \notin DOMAIN st THEN [exc |-> "KeyError", st |-> st]
    ELSE IF FormatKey(format_type) \notin DOMAIN st[event_id]
    THEN [exc |-> "KeyError", st |-> st]
    ELSE [exc |-> "none",
          st  |-> [st EXCEPT ![event_id][FormatKey(format_type)] = @ + 1]]


----------------------------------------------------------------------------
(* The configurations and calls the coordinator is exercised with *)

MaxLogs == 2       \* record_log_generated is called at most this often

\* the format names of the glossary
Glossary ==
    {"apache", "json", "csv", "pipe", "kv", "hadoop", "logstash", "nginx",
     "tomcat", "mysql", "redis", "syslog"}

\* the formats the coordinator is called with: the two it keeps counters
\* for, one more that events list, and one that no event lists
CallFormats == {"apache", "nginx", "json", "syslog"}

\* the formats whose generators consult the coordinator
EventAwareFormats == {"apache", "nginx"}

RunStarts == {30}

EventIds == <<"attack_001", "burst_001">>
EventIps == <<"192.168.1.100", "10.0.0.50">>

\* "+0m" for 90 s, "+1m" for 30 s, "00:01:00" for 30 s
WindowChoices ==
    { [start_time |-> <<"+", "0", "m">>, duration_seconds |-> 90],
      [start_time |-> <<"+", "1", "m">>, duration_seconds |-> 30],
      [start_time |-> <<"0", "0", ":", "0", "1", ":", "0", "0">>,
       duration_seconds |-> 30] }

AffectedChoices ==
    { <<"apache", "nginx">>, <<"apache">>, <<"nginx", "json">> }

\* the "apache" and "nginx" blocks of an event, as load_event_config reads them
OverrideChoices ==
    { [apache_config |-> None, nginx_config |-> None],
      [apache_config |-> [total_logs |-> 2], nginx_config |-> [total_logs |-> 1]],
      [apache_config |-> [total_logs |-> 0], nginx_config |-> [total_logs |-> 2]] }

\* EventConfig, the i-th of the configuration
EventConfig(i, w, a, o) ==
    [id |-> EventIds[i], ip |-> EventIps[i],
     start_time |-> w.start_time, duration_seconds |-> w.duration_seconds,
     affected_formats |-> a,
     apache_config |-> o.apache_config, nginx_config |-> o.nginx_config]

\* the event declared first varies over all the choices; the one declared
\* second lists nginx and has no total_logs of 0
EventChoices(i) ==
    { EventConfig(i, w, a, o) :
        w \in WindowChoices,
        a \in {x \in AffectedChoices : i = 1 \/ InList("nginx", x)},
        o \in {x \in OverrideChoices :
                  i = 1 \/ ~ TruthyGet(x.nginx_config, "total_logs")
                        \/ x.nginx_config.total_logs = 1} }

EventLists ==
    { <<e1>> : e1 \in EventChoices(1) }
        \cup { <<e1, e2>> : e1 \in EventChoices(1), e2 \in EventChoices(2) }

\* the timestamps the clock takes and the ones get_active_event is asked about
ClockTimes == {30, 90, 121}
QueryTimes == {30, 60, 90, 120, 121}

\* EventCoordinator.__init__
CoordInit ==
    /\ events \in EventLists
    /\ start_time \in RunStarts
    /\ event_state = [id \in {events[i].id : i \in 1..Len(events)} |->
                          InitialEventState]
    /\ now = start_time

EventIndexes == 1..Len(events)

Counter(i, format_type) == event_state[events[i].id][FormatKey(format_type)]

TotalRecorded ==
    LET RECURSIVE Sum(_)
        Sum(i) == IF i = 0 THEN 0
                  ELSE Sum(i - 1) + Counter(i, "apache") + Counter(i, "nginx")
    IN  Sum(Len(events))

\* a call of record_log_generated(events[i].id, format_type); a call that
\* raises leaves the coordinator as it was
RecordLogGenerated(i, format_type) ==
    LET r == record_log_generated(event_state, events[i].id, format_type)
    IN  /\ TotalRecorded < MaxLogs
        /\ event_state' = r.st
        /\ UNCHANGED <<events, start_time, now, besideCoord>>

\* the source IPs a line gets when no event is active: four random octets
\* of 1..255 each, which may come out as an event's ip
BaselineIps == {"23.45.67.89", "192.168.1.100"}

\* a generator that gives event lines a random source IP as well
generate_log_line_random_ip(evts, st, run_start, format_type, current_time) ==
    LET active == get_active_event(evts, st, run_start, format_type, current_time)
    IN  IF active.exc # "none"
        THEN {[exc |-> active.exc, ip |-> "", event |-> 0, st |-> st]}
        ELSE IF active.ev # 0
        THEN LET r == record_log_generated(st, evts[active.ev].id, format_type)
             IN  {[exc |-> r.exc, ip |-> ip, event |-> active.ev, st |-> r.st] :
                     ip \in BaselineIps}
        ELSE {[exc |-> "none", ip |-> ip, event |-> 0, st |-> st] :
                 ip \in BaselineIps}

\* EventAwareApacheGenerator.generate_log_line and
\* EventAwareNginxGenerator.generate_log_line: the outcomes of a call, each
\* with the source IP of the line, the event it was generated for (0: none)
\* and the event_state it leaves
generate_log_line(evts, st, run_start, format_type, current_time) ==
    LET active == get_active_event(evts, st, run_start, format_type, current_time)
    IN  IF active.exc # "none"
        THEN {[exc |-> active.exc, ip |-> "", event |-> 0, st |-> st]}
        ELSE IF active.ev # 0
        THEN LET r == record_log_generated(st, evts[active.ev].id, format_type)
             IN  {[exc |-> r.exc, ip |-> evts[active.ev].ip, event |-> active.ev,
                   st |-> r.st]}
        ELSE {[exc |-> "none", ip |-> ip, event |-> 0, st |-> st] :
                 ip \in BaselineIps}

\* a call of generate_log_line of the generator of format_type, with
\* current_time = now
GenerateLogLine(format_type) ==
    /\ TotalRecorded < MaxLogs
    /\ \E o \in generate_log_line(events, event_state, start_time,
                                   format_type, now) :
           event_state' = o.st
    /\ UNCHANGED <<events, start_time, now, besideCoord>>

\* time passes
Tick ==
    /\ \E t \in ClockTimes : t > now /\ now' = t
    /\ UNCHANGED <<events, start_time, event_state, besideCoord>>

CoordNext ==
    \/ \E i \in EventIndexes, f \in CallFormats : RecordLogGenerated(i, f)
    \/ \E f \in EventAwareFormats : GenerateLogLine(f)
    \/ Tick

----------------------------------------------------------------------------
(* record_log_generated called by several tasks at once.  The statement     *)
(* state[key] += 1 reads the counter and writes it back in separate         *)
(* bytecodes, and the code takes no lock, so another task may run between   *)
(* the two.                                                                  *)

NumTasks == 2      \* the tasks that call record_log_generated
MaxCalls == 3      \* the calls they begin, together

Tasks == 1..NumTasks

RaceEvents ==
    << EventConfig(1, [start_time |-> <<"+", "0", "m">>, duration_seconds |-> 90],
                   <<"apache", "nginx">>,
                   [apache_config |-> None, nginx_config |-> None]) >>

RaceIdle ==
    /\ task_pc = [t \in Tasks |-> "idle"]
    /\ task_fmt = [t \in Tasks |-> "apache"]
    /\ task_tmp = [t \in Tasks |-> 0]
    /\ calls_made = [f \in EventAwareFormats |-> 0]

RaceInit ==
    /\ events = RaceEvents
    /\ start_time \in RunStarts
    /\ event_state = [id \in {events[i].id : i \in 1..Len(events)} |->
                          InitialEventState]
    /\ now = start_time
    /\ RaceIdle

CallsBegun == calls_made["apache"] + calls_made["nginx"]

\* record_log_generated, up to the read of state[key] in `state[key] += 1`
RecordLoad(task, format_type) ==
    /\ task_pc[task] = "idle"
    /\ CallsBegun < MaxCalls
    /\ task_pc' = [task_pc EXCEPT ![task] = "loaded"]
    /\ task_fmt' = [task_fmt EXCEPT ![task] = format_type]
    /\ task_tmp' = [task_tmp EXCEPT ![task] =
                        event_state[events[1].id][FormatKey(format_type)]]
    /\ calls_made' = [calls_made EXCEPT ![format_type] = @ + 1]
    /\ UNCHANGED <<coordVars, besideRace>>

\* the write of `state[key] += 1`, which ends the call
RecordStore(task) ==
    /\ task_pc[task] = "loaded"
    /\ event_state' = [event_state EXCEPT
                          ![events[1].id][FormatKey(task_fmt[task])] =
                              task_tmp[task] + 1]
    /\ task_pc' = [task_pc EXCEPT ![task] = "idle"]
    /\ UNCHANGED <<events, start_time, now, task_fmt, task_tmp, calls_made,
                   besideRace>>

RaceNext ==
    \/ \E t \in Tasks, f \in EventAwareFormats : RecordLoad(t, f)
    \/ \E t \in Tasks : RecordStore(t)

----------------------------------------------------------------------------
(* The run schedulers: LogGenerator.run_concurrent and the single-format    *)
(* paths of generate_logs.py and enhanced_cli_example.py                    *)
(* (refactored_example.py has the run_concurrent of the latter).  A job is  *)
(* one format's generator submitted to the ThreadPoolExecutor; the lines it *)
(* appends are counted in `written` when it ends.                           *)

MaxLines == 2      \* lines_per_format is at most this

\* ThreadPoolExecutor(max_workers=6), in both schedulers
max_workers == 6

\* the keys of the registry, in the order of the dict
LOG_GENERATORS ==
    <<"apache", "csv", "pipe", "kv", "hadoop", "logstash", "nginx", "tomcat",
      "mysql", "redis", "syslog">>

\* the generators list of generate_logs.py's run_concurrent, by format
generators == <<"apache", "json", "csv", "pipe", "kv", "hadoop">>

Implementations == {"generate_logs", "enhanced_cli_example"}

\* the formats run_concurrent submits, in the order it submits them
JobList(module) ==
    IF module = "generate_logs" THEN generators ELSE LOG_GENERATORS

\* what a run is asked for: every format, or one format by name
RequestChoices == {"all", "apache", "json"}

\* the job whose append to the output file raises (0: none does)
FaultyJobChoices == {0, 1, 3, 7}

\* the number of lines a generator writes: the generators of generate_logs.py
\* draw it with _get_random_lines, the generator classes take self.lines
TargetChoices(module, lines) ==
    IF module = "generate_logs" THEN 1..lines ELSE {lines}

RunIdle ==
    /\ impl = "generate_logs"
    /\ request = "all"
    /\ lines_per_format = 1
    /\ fault = 0
    /\ main_pc = "start"
    /\ job = <<>>
    /\ written = [f \in Glossary |-> 0]
    /\ status_log = {}

RunInit ==
    /\ impl \in Implementations
    /\ request \in RequestChoices
    /\ lines_per_format \in 1..MaxLines
    /\ fault \in {j \in FaultyJobChoices :
                     j = 0 \/ (request = "all" /\ j <= Len(JobList(impl)))}
    /\ main_pc = "start"
    /\ job = [j \in 1..Len(JobList(impl)) |-> "unsubmitted"]
    /\ written = [f \in Glossary |-> 0]
    /\ status_log = {}

Jobs == 1..Len(job)

Finished(j) == job[j] \in {"done", "failed"}

RunningCount == Cardinality({j \in Jobs : job[j] = "running"})

FailureLogged(j) == <<"generator failed", JobList(impl)[j]>> \in status_log

\* the future that `for future in futures: future.result()` raises from:
\* the first one in submission order that failed, once those before it
\* have returned
FirstFailed(j) ==
    /\ job[j] = "failed"
    /\ \A i \in Jobs : i < j => job[i] = "done"

\* ThreadPoolExecutor.__exit__ without the join
ShutdownNoWait(jobs) == TRUE

\* ThreadPoolExecutor.__exit__: shutdown(wait=True) joins the workers, which
\* first run every job submitted
ShutdownWaits(jobs) ==
    \A j \in 1..Len(jobs) : jobs[j] \in {"done", "failed"}

\* the literal 6 of the messages run_concurrent logs
announced_formats == 6

\* "[*] Concurrent generation: ..." logged before the pool is made:
\* generate_logs.py names a ceiling per format and the number of formats,
\* the example CLIs a total and the number of formats
Announcement(module, lines) ==
    IF module = "generate_logs"
       THEN <<"Concurrent generation", "up to per format", lines, announced_formats>>
       ELSE <<"Concurrent generation", "total lines", lines * announced_formats,
              announced_formats>>

\* what "[OK] All formats finished. ..." adds to the completion message:
\* the example CLIs report a total, generate_logs.py none
CompletionReport(module, lines) ==
    IF module = "generate_logs"
       THEN {<<"All formats finished">>}
       ELSE {<<"All formats finished">>,
             <<"Total lines", lines * announced_formats>>}

\* run_concurrent up to the end of the submission loop
RunConcurrentSubmit ==
    /\ main_pc = "start"
    /\ request = "all"
    /\ status_log' = status_log \cup {Announcement(impl, lines_per_format)}
    /\ job' = [j \in Jobs |-> "queued"]
    /\ main_pc' = "collect"
    /\ UNCHANGED <<besideRun,
                   impl, request, lines_per_format, fault, written>>

\* a worker thread takes the oldest queued job
StartJob(j) ==
    /\ job[j] = "queued"
    /\ \A i \in Jobs : i < j => job[i] # "queued"
    /\ RunningCount < max_workers
    /\ job' = [job EXCEPT ![j] = "running"]
    /\ UNCHANGED <<besideRun,
                   impl, request, lines_per_format, fault, main_pc, written,
                   status_log>>

\* the generator of job j writes all its lines and returns
FinishJob(j) ==
    /\ job[j] = "running"
    /\ j # fault
    /\ \E n \in TargetChoices(impl, lines_per_format) :
           written' = [written EXCEPT ![JobList(impl)[j]] = @ + n]
    /\ job' = [job EXCEPT ![j] = "done"]
    /\ UNCHANGED <<besideRun,
                   impl, request, lines_per_format, fault, main_pc, status_log>>

\* an append of job j raises after k lines were written
FailJob(j) ==
    /\ job[j] = "running"
    /\ j = fault
    /\ \E k \in 0..(lines_per_format - 1) :
           written' = [written EXCEPT ![JobList(impl)[j]] = @ + k]
    /\ job' = [job EXCEPT ![j] = "failed"]
    /\ UNCHANGED <<besideRun,
                   impl, request, lines_per_format, fault, main_pc, status_log>>

\* generate_logs.py: as_completed yields a failed future, the except logs it
LogFailure(j) ==
    /\ main_pc = "collect"
    /\ impl = "generate_logs"
    /\ job[j] = "failed"
    /\ ~FailureLogged(j)
    /\ status_log' = status_log \cup {<<"generator failed", JobList(impl)[j]>>}
    /\ UNCHANGED <<besideRun,
                   impl, request, lines_per_format, fault, main_pc, job, written>>

\* the loop over the futures ends with every result taken
CollectDone ==
    /\ main_pc = "collect"
    /\ IF impl = "generate_logs"
          THEN \A j \in Jobs : Finished(j) /\ (job[j] = "failed" => FailureLogged(j))
          ELSE \A j \in Jobs : job[j] = "done"
    /\ main_pc' = "exit"
    /\ UNCHANGED <<besideRun,
                   impl, request, lines_per_format, fault, job, written, status_log>>

\* enhanced_cli_example.py: future.result() re-raises the job's exception
ResultRaises ==
    /\ main_pc = "collect"
    /\ impl = "enhanced_cli_example"
    /\ \E j \in Jobs : FirstFailed(j)
    /\ main_pc' = "exit_raising"
    /\ UNCHANGED <<besideRun,
                   impl, request, lines_per_format, fault, job, written, status_log>>

\* the end of the with block, and what follows it in run_concurrent
ExecutorExit ==
    /\ main_pc \in {"exit", "exit_raising"}
    /\ ShutdownWaits(job)
    /\ IF main_pc = "exit"
          THEN /\ main_pc' = "returned"
               /\ status_log' = status_log \cup
                      CompletionReport(impl, lines_per_format)
          ELSE /\ main_pc' = "raised"
               /\ status_log' = status_log
    /\ UNCHANGED <<besideRun,
                   impl, request, lines_per_format, fault, job, written>>

\* one format asked for by name: run_single_format of enhanced_cli_example.py,
\* format_map[args.format]() of generate_logs.py
RunSingleFormat ==
    /\ main_pc = "start"
    /\ request # "all"
    /\ IF impl = "enhanced_cli_example" /\ ~InList(request, LOG_GENERATORS)
          THEN /\ written' = written
               /\ status_log' = status_log \cup
                      {<<"Unknown format", request>>, <<"format finished", request>>}
          ELSE /\ \E n \in TargetChoices(impl, lines_per_format) :
                      written' = [written EXCEPT ![request] = @ + n]
               /\ status_log' = status_log \cup
                      (IF impl = "enhanced_cli_example"
                          THEN {<<"format finished", request>>} ELSE {})
    /\ main_pc' = "returned"
    /\ UNCHANGED <<besideRun,
                   impl, request, lines_per_format, fault, job>>

RunNext ==
    \/ RunConcurrentSubmit
    \/ \E j \in Jobs : StartJob(j)
    \/ \E j \in Jobs : FinishJob(j)
    \/ \E j \in Jobs : FailJob(j)
    \/ \E j \in Jobs : LogFailure(j)
    \/ CollectDone
    \/ ResultRaises
    \/ ExecutorExit
    \/ RunSingleFormat

----------------------------------------------------------------------------
(* The output file under concurrent generators: _write_log, and the second  *)
(* destination of SyslogLogGenerator._write_syslog_file.  What f.write      *)
(* hands over reaches the file in pieces: the text of the line, then its    *)
(* newline.                                                                  *)

NumWriters == 2       \* the generator tasks that write
LinesPerWriter == 2   \* the lines each of them writes

Writers == 1..NumWriters

\* writer 1 is a SyslogLogGenerator constructed with a syslog_file
WritesSyslogFile(w) == w = 1

Destinations == {"output_file", "syslog_file"}

SinkIdle ==
    /\ writer_pc = [w \in Writers |-> "done"]
    /\ writer_line = [w \in Writers |-> 0]
    /\ writer_dest = [w \in Writers |-> "output_file"]
    /\ lock_holder = 0
    /\ files = [d \in Destinations |-> <<>>]

SinkInit ==
    /\ writer_pc = [w \in Writers |-> "ready"]
    /\ writer_line = [w \in Writers |-> 1]
    /\ writer_dest = [w \in Writers |-> "output_file"]
    /\ lock_holder = 0
    /\ files = [d \in Destinations |-> <<>>]

\* `with self.lock` entered without the lock being free
LockIgnored(holder) == TRUE

\* `with self.lock` is entered when no thread holds the lock
LockFree(holder) == holder = 0

\* with self.lock: with open(file, 'a') as f:
AcquireAndOpen(w) ==
    /\ writer_pc[w] = "ready"
    /\ LockFree(lock_holder)
    /\ lock_holder' = w
    /\ writer_pc' = [writer_pc EXCEPT ![w] = "opened"]
    /\ UNCHANGED <<writer_line, writer_dest, files, besideSink>>

\* f.write(line + '\n'): the text of the line reaches the file
WriteText(w) ==
    /\ writer_pc[w] = "opened"
    /\ files' = [files EXCEPT ![writer_dest[w]] =
                     Append(@, [by |-> w, line |-> writer_line[w], part |-> "text"])]
    /\ writer_pc' = [writer_pc EXCEPT ![w] = "text_written"]
    /\ UNCHANGED <<writer_line, writer_dest, lock_holder, besideSink>>

\* the newline reaches the file, the file is closed and the lock released;
\* the generator goes on to its next write
WriteNewlineAndRelease(w) ==
    /\ writer_pc[w] = "text_written"
    /\ files' = [files EXCEPT ![writer_dest[w]] =
                     Append(@, [by |-> w, line |-> writer_line[w], part |-> "newline"])]
    /\ lock_holder' = IF lock_holder = w THEN 0 ELSE lock_holder
    /\ IF writer_dest[w] = "output_file" /\ WritesSyslogFile(w)
          THEN /\ writer_dest' = [writer_dest EXCEPT ![w] = "syslog_file"]
               /\ writer_line' = writer_line
               /\ writer_pc' = [writer_pc EXCEPT ![w] = "ready"]
          ELSE /\ writer_dest' = [writer_dest EXCEPT ![w] = "output_file"]
               /\ IF writer_line[w] < LinesPerWriter
                     THEN /\ writer_line' = [writer_line EXCEPT ![w] = @ + 1]
                          /\ writer_pc' = [writer_pc EXCEPT ![w] = "ready"]
                     ELSE /\ writer_line' = writer_line
                          /\ writer_pc' = [writer_pc EXCEPT ![w] = "done"]
    /\ UNCHANGED besideSink

\* a `with self.lock` block whose exit keeps the lock
LockKeptOnExit(holder, w) == holder

\* the exit of the `with self.lock` block of thread w, by return or by raise
LockExit(holder, w) == IF holder = w THEN 0 ELSE holder

\* f.write raises inside the with blocks: the file is closed, the lock is
\* released and the exception ends the generator
WriteRaises(w) ==
    /\ writer_pc[w] = "opened"
    /\ lock_holder' = LockExit(lock_holder, w)
    /\ writer_pc' = [writer_pc EXCEPT ![w] = "failed"]
    /\ UNCHANGED <<writer_line, writer_dest, files, besideSink>>

SinkNext ==
    \/ \E w \in Writers : AcquireAndOpen(w)
    \/ \E w \in Writers : WriteText(w)
    \/ \E w \in Writers : WriteNewlineAndRelease(w)
    \/ \E w \in Writers : WriteRaises(w)

----------------------------------------------------------------------------
(* LogGenerator.run_with_duration: the loop that restarts the run while     *)
(* time remains.  The wall clock is seen through the one comparison the     *)
(* code makes, time.time() < end_time: `expired` is its negation.  The      *)
(* prologue up to the first evaluation of the while condition takes less    *)
(* than the one second that a positive duration at least is, so the         *)
(* deadline passes only after that first evaluation.                        *)

MaxIterations == 2   \* iterations started in one call of run_with_duration

\* the modules that define run_with_duration
DurationModules == {"generate_logs", "enhanced_cli_example", "refactored_example"}

\* refactored_example.py has the run_concurrent of enhanced_cli_example.py
RunModule(module) ==
    IF module = "generate_logs" THEN "generate_logs" ELSE "enhanced_cli_example"

\* duration_seconds: zero and a positive number of seconds
DurationChoices == {0, 5}

\* pause_seconds: none and a positive pause
PauseChoices == {0, 2}

\* the format_name argument; generate_logs.py always runs every format
DurationRequests(module) ==
    IF module = "enhanced_cli_example" THEN {"all", "apache"} ELSE {"all"}

\* lines_per_format: the generators of generate_logs.py, which draw their
\* line count from 1..lines_per_format, are given one line
DurationLines(module) == IF module = "generate_logs" THEN 1 ELSE MaxLines

\* the faulty job of a call of run_with_duration
DurationFaults == {0, 3}

DurIdle ==
    /\ dur_module = "generate_logs"
    /\ duration = 0
    /\ pause_seconds = 0
    /\ dur_pc = "idle"
    /\ expired = FALSE
    /\ iteration = 0
    /\ iterations_started = 0
    /\ iterations_completed = 0
    /\ late_starts = {}
    /\ remained_after = {}
    /\ slept_after = {}
    /\ reported = 0

DurInit ==
    /\ dur_module \in DurationModules
    /\ duration \in DurationChoices
    /\ pause_seconds \in PauseChoices
    /\ dur_pc = "begin"
    /\ expired = FALSE
    /\ iteration = 0
    /\ iterations_started = 0
    /\ iterations_completed = 0
    /\ late_starts = {}
    /\ remained_after = {}
    /\ slept_after = {}
    /\ reported = 0
    /\ impl = RunModule(dur_module)
    /\ request \in DurationRequests(dur_module)
    /\ lines_per_format = DurationLines(dur_module)
    /\ fault \in {j \in DurationFaults : j = 0 \/ request = "all"}
    /\ main_pc = "idle"
    /\ job = [j \in 1..Len(JobList(impl)) |-> "unsubmitted"]
    /\ written = [f \in Glossary |-> 0]
    /\ status_log = {}

\* a loop that takes every iteration to be in time
TimeAlwaysRemains(is_expired) == TRUE

\* time.time() < end_time
TimeRemains(is_expired) == ~is_expired

\* a loop that never pauses
NeverPause(pause) == FALSE

\* if self.pause_seconds > 0
ShouldPause(pause) == pause > 0

\* run_with_duration up to the while loop; refactored_example.py uses
\* datetime in the second logger.info without importing it
DurationBegin ==
    /\ dur_pc = "begin"
    /\ IF dur_module = "refactored_example"
          THEN /\ dur_pc' = "raised"
               /\ status_log' = status_log \cup {<<"NameError", "datetime">>}
               /\ UNCHANGED <<expired, iteration>>
          ELSE /\ dur_pc' = "first_check"
               /\ expired' = (duration <= 0)
               /\ iteration' = 1
               /\ status_log' = status_log
    /\ UNCHANGED <<dur_module, duration, pause_seconds, iterations_started,
                   iterations_completed, late_starts, remained_after,
                   slept_after, reported>>
    /\ UNCHANGED <<impl, request, lines_per_format, fault, main_pc, job, written>>
    /\ UNCHANGED besideDur

\* the deadline passes
Expire ==
    /\ dur_pc \in {"loop_check", "in_run", "pausing"}
    /\ ~expired
    /\ expired' = TRUE
    /\ UNCHANGED <<dur_module, duration, pause_seconds, dur_pc, iteration,
                   iterations_started, iterations_completed, late_starts,
                   remained_after, slept_after, reported>>
    /\ UNCHANGED <<runVars, besideDur>>

\* the while condition holds: the next iteration starts with a call of
\* run_concurrent or run_single_format
StartIteration ==
    /\ dur_pc \in {"first_check", "loop_check"}
    /\ TimeRemains(expired)
    /\ iterations_started < MaxIterations
    /\ dur_pc' = "in_run"
    /\ iterations_started' = iterations_started + 1
    /\ late_starts' = IF expired THEN late_starts \cup {iterations_started + 1}
                      ELSE late_starts
    /\ main_pc' = "start"
    /\ job' = [j \in Jobs |-> "unsubmitted"]
    /\ UNCHANGED <<dur_module, duration, pause_seconds, expired, iteration,
                   iterations_completed, remained_after, slept_after, reported>>
    /\ UNCHANGED <<impl, request, lines_per_format, fault, written, status_log>>
    /\ UNCHANGED besideDur

\* the while condition fails: the loop is left and the totals are logged
LoopExit ==
    /\ dur_pc \in {"first_check", "loop_check"}
    /\ ~TimeRemains(expired)
    /\ dur_pc' = "finished"
    /\ reported' = iteration
    /\ UNCHANGED <<dur_module, duration, pause_seconds, expired, iteration,
                   iterations_started, iterations_completed, late_starts,
                   remained_after, slept_after>>
    /\ UNCHANGED <<runVars, besideDur>>

\* the run of the iteration has returned: the check of the time left, with
\* its two branches
AfterRun ==
    /\ dur_pc = "in_run"
    /\ main_pc = "returned"
    /\ iterations_completed' = iterations_completed + 1
    /\ IF TimeRemains(expired)
          THEN /\ iteration' = iteration + 1
               /\ remained_after' = remained_after \cup {iterations_completed + 1}
               /\ dur_pc' = IF ShouldPause(pause_seconds) THEN "pausing"
                            ELSE "loop_check"
               /\ reported' = reported
          ELSE /\ iteration' = iteration
               /\ remained_after' = remained_after
               /\ dur_pc' = "finished"
               /\ reported' = iteration
    /\ UNCHANGED <<dur_module, duration, pause_seconds, expired,
                   iterations_started, late_starts, slept_after>>
    /\ UNCHANGED <<runVars, besideDur>>

\* time.sleep(self.pause_seconds)
Sleep ==
    /\ dur_pc = "pausing"
    /\ slept_after' = slept_after \cup {iterations_completed}
    /\ dur_pc' = "loop_check"
    /\ UNCHANGED <<dur_module, duration, pause_seconds, expired, iteration,
                   iterations_started, iterations_completed, late_starts,
                   remained_after, reported>>
    /\ UNCHANGED <<runVars, besideDur>>

\* the run of the iteration raised: nothing in the loop catches it
RunRaised ==
    /\ dur_pc = "in_run"
    /\ main_pc = "raised"
    /\ dur_pc' = "raised"
    /\ UNCHANGED <<dur_module, duration, pause_seconds, expired, iteration,
                   iterations_started, iterations_completed, late_starts,
                   remained_after, slept_after, reported>>
    /\ UNCHANGED <<runVars, besideDur>>

DurNext ==
    \/ DurationBegin
    \/ Expire
    \/ StartIteration
    \/ LoopExit
    \/ AfterRun
    \/ Sleep
    \/ RunRaised
    \/ RunNext

----------------------------------------------------------------------------
(* The coordinator over the start_time strings a configuration may hold:    *)
(* load_event_config and EventCoordinator.__init__ store the string as it   *)
(* is, _parse_start_time reads it at every call of get_active_event.        *)

\* start_time strings with what they say: relative offsets, a time of day,
\* and strings that are neither
TimeSpecs ==
    { [text |-> <<"+", "0", "m">>, kind |-> "relative", minutes |-> 0],
      [text |-> <<"+", "2", "m">>, kind |-> "relative", minutes |-> 2],
      [text |-> <<"+", "1", "0", "m">>, kind |-> "relative", minutes |-> 10],
      [text |-> <<"0", "0", ":", "0", "1", ":", "0", "0">>, kind |-> "absolute",
       minutes |-> 1],
      [text |-> <<"+", "m">>, kind |-> "invalid", minutes |-> 0],
      [text |-> <<"2", "5", ":", "0", "0", ":", "0", "0">>, kind |-> "invalid",
       minutes |-> 0],
      [text |-> <<"1", "2", ":", "3", "0">>, kind |-> "invalid", minutes |-> 0],
      [text |-> <<"n", "o", "w">>, kind |-> "invalid", minutes |-> 0] }

\* the run starts the coordinator is constructed with
T0Choices == {0, 30}

\* duration_seconds of the event
TimeSpecDurations == {30}

TimeSpecEvents ==
    { << EventConfig(1, [start_time |-> s.text, duration_seconds |-> d],
                     <<"apache", "nginx">>,
                     [apache_config |-> None, nginx_config |-> None]) >> :
        s \in TimeSpecs, d \in TimeSpecDurations }

\* load_event_config followed by EventCoordinator.__init__
TimeSpecInit ==
    /\ events \in TimeSpecEvents
    /\ start_time \in T0Choices
    /\ event_state = [id \in {events[i].id : i \in 1..Len(events)} |->
                          InitialEventState]
    /\ now = start_time

----------------------------------------------------------------------------
(* _randint, the random integer of the field synthesizers: of LogGenerator *)
(* in generate_logs.py and of BaseLogGenerator in log_generators.py        *)

MaxArg == 10   \* the largest argument of a call of _randint

\* the arguments of a call
SynthArgs == -2..MaxArg

\* the two classes that define _randint, by module
SynthModules == {"generate_logs", "log_generators"}

\* random.randint(a, b): any integer of a..b; randrange raises ValueError
\* for an empty range
random_randint(a, b) ==
    IF a > b
    THEN {[exc |-> "ValueError", value |-> 0]}
    ELSE {[exc |-> "none", value |-> v] : v \in a..b}

\* LogGenerator._randint of generate_logs.py
LogGenerator_randint(low, high) ==
    IF low > high THEN random_randint(high, low) ELSE random_randint(low, high)

\* BaseLogGenerator._randint of log_generators.py
BaseLogGenerator_randint(min_val, max_val) == random_randint(min_val, max_val)

\* _randint of the class of a module
randint_of(module, low, high) ==
    IF module = "generate_logs"
    THEN LogGenerator_randint(low, high)
    ELSE BaseLogGenerator_randint(low, high)

SynthIdle ==
    /\ synth_module = "generate_logs"
    /\ synth_low = 0
    /\ synth_high = 0
    /\ synth_pc = "idle"
    /\ synth_value = 0

SynthInit ==
    /\ synth_module \in SynthModules
    /\ synth_low \in SynthArgs
    /\ synth_high \in SynthArgs
    /\ synth_pc = "call"
    /\ synth_value = 0

\* the call self._randint(synth_low, synth_high) returns or raises
Randint ==
    /\ synth_pc = "call"
    /\ \E o \in randint_of(synth_module, synth_low, synth_high) :
          IF o.exc = "none"
          THEN synth_pc' = "returned" /\ synth_value' = o.value
          ELSE synth_pc' = "raised" /\ synth_value' = synth_value
    /\ UNCHANGED <<synth_module, synth_low, synth_high, besideSynth>>

SynthNext == Randint

----------------------------------------------------------------------------
(* Calls of the methods of a generator that compute a field of a line *)

CallIdle ==
    /\ call_args = None
    /\ call_pc = "idle"
    /\ call_result = None

\* the call returned result
CallReturns(result) ==
    /\ call_pc = "call"
    /\ call_pc' = "returned"
    /\ call_result' = result
    /\ UNCHANGED <<call_args, besideCall>>

----------------------------------------------------------------------------
(* _get_realistic_message of BaseLogGenerator (log_generators.py) and of   *)
(* LogGenerator (generate_logs.py).  A message is the sequence of its      *)
(* pieces: a placeholder is the piece "{name}", a run of any other text of *)
(* a template is the piece "text", and a substituted value is the piece    *)
(* holding that value.                                                     *)

\* messages, with the templates of one shape given once
messages_log_generators ==
    [ checkout |->
          [ DEBUG |-> {<<"text">>},
            INFO |->
                {<<"text">>,
                 <<"text", "{amount}">>,
                 <<"text", "{time}", "text">>,
                 <<"text", "{order_id}", "text">>},
            WARN |-> {<<"text">>, <<"text", "{item_id}">>},
            ERROR |-> {<<"text">>, <<"text", "{item_id}">>},
            CRITICAL |-> {<<"text">>} ],
      inventory |->
          [ DEBUG |-> {<<"text", "{product_id}">>, <<"text">>},
            INFO |->
                {<<"text", "{product_id}", "text">>,
                 <<"text">>,
                 <<"text", "{product_id}">>},
            WARN |->
                {<<"text", "{product_id}">>,
                 <<"text">>,
                 <<"text", "{product_id}", "text">>},
            ERROR |-> {<<"text", "{product_id}">>, <<"text">>},
            CRITICAL |-> {<<"text">>} ],
      payments |->
          [ DEBUG |-> {<<"text">>, <<"text", "{txn_id}">>},
            INFO |->
                {<<"text", "{amount}", "text">>,
                 <<"text", "{txn_id}">>,
                 <<"text", "{user_id}">>,
                 <<"text", "{txn_id}", "text">>,
                 <<"text">>,
                 <<"text", "{order_id}">>},
            WARN |->
                {<<"text">>,
                 <<"text", "{txn_id}">>,
                 <<"text", "{user_id}">>},
            ERROR |->
                {<<"text", "{txn_id}">>,
                 <<"text", "{user_id}">>,
                 <<"text">>,
                 <<"text", "{txn_id}", "text">>},
            CRITICAL |-> {<<"text">>, <<"text", "{txn_id}">>} ],
      search |->
          [ DEBUG |->
                {<<"text", "{product_id}">>,
                 <<"text", "{query}">>,
                 <<"text", "{category}">>,
                 <<"text">>},
            INFO |->
                {<<"text">>,
                 <<"text", "{query}">>,
                 <<"text", "{time}", "text">>,
                 <<"text", "{product_id}", "text">>},
            WARN |-> {<<"text">>, <<"text", "{query}">>},
            ERROR |-> {<<"text">>, <<"text", "{query}">>},
            CRITICAL |-> {<<"text">>} ],
      shipping |->
          [ DEBUG |->
                {<<"text", "{order_id}">>,
                 <<"text">>,
                 <<"text", "{tracking_id}">>},
            INFO |->
                {<<"text", "{tracking_id}", "text">>,
                 <<"text", "{order_id}">>,
                 <<"text", "{tracking_id}">>,
                 <<"text", "{order_id}", "text">>,
                 <<"text">>},
            WARN |->
                {<<"text">>,
                 <<"text", "{tracking_id}", "text">>,
                 <<"text", "{tracking_id}">>},
            ERROR |-> {<<"text">>, <<"text", "{tracking_id}", "text">>},
            CRITICAL |-> {<<"text">>} ] ]

messages_generate_logs ==
    [ checkout |->
          [ DEBUG |-> {<<"text">>},
            INFO |-> {<<"text">>, <<"text", "{amount}">>},
            WARN |-> {<<"text">>, <<"text", "{item_id}">>},
            ERROR |-> {<<"text">>, <<"text", "{item_id}">>},
            CRITICAL |-> {<<"text">>} ],
      inventory |->
          [ DEBUG |-> {<<"text", "{product_id}">>, <<"text">>},
            INFO |->
                {<<"text", "{product_id}", "text">>,
                 <<"text">>,
                 <<"text", "{product_id}">>},
            WARN |->
                {<<"text", "{product_id}">>,
                 <<"text">>,
                 <<"text", "{product_id}", "text">>},
            ERROR |-> {<<"text", "{product_id}">>, <<"text">>},
            CRITICAL |-> {<<"text">>} ],
      payments |->
          [ DEBUG |-> {<<"text">>, <<"text", "{txn_id}">>},
            INFO |->
                {<<"text", "{amount}", "text">>,
                 <<"text", "{txn_id}">>,
                 <<"text", "{user_id}">>,
                 <<"text", "{txn_id}", "text">>,
                 <<"text">>},
            WARN |->
                {<<"text">>,
                 <<"text", "{txn_id}">>,
                 <<"text", "{user_id}">>},
            ERROR |->
                {<<"text", "{txn_id}">>,
                 <<"text", "{user_id}">>,
                 <<"text">>,
                 <<"text", "{txn_id}", "text">>},
            CRITICAL |-> {<<"text">>, <<"text", "{txn_id}">>} ],
      search |->
          [ DEBUG |->
                {<<"text", "{product_id}">>,
                 <<"text", "{query}">>,
                 <<"text", "{category}">>,
                 <<"text">>},
            INFO |->
                {<<"text">>,
                 <<"text", "{query}">>,
                 <<"text", "{time}", "text">>,
                 <<"text", "{product_id}", "text">>},
            WARN |-> {<<"text">>, <<"text", "{query}">>},
            ERROR |-> {<<"text">>, <<"text", "{query}">>},
            CRITICAL |-> {<<"text">>} ],
      shipping |->
          [ DEBUG |->
                {<<"text", "{order_id}">>,
                 <<"text">>,
                 <<"text", "{tracking_id}">>},
            INFO |->
                {<<"text", "{tracking_id}", "text">>,
                 <<"text", "{order_id}">>,
                 <<"text", "{tracking_id}">>,
                 <<"text", "{order_id}", "text">>},
            WARN |->
                {<<"text">>,
                 <<"text", "{tracking_id}", "text">>,
                 <<"text", "{tracking_id}">>},
            ERROR |-> {<<"text">>, <<"text", "{tracking_id}", "text">>},
            CRITICAL |-> {<<"text">>} ] ]

\* the dict that messages.get(service, ...) falls back to
generic_service_messages ==
    [ DEBUG |-> {<<"text">>}, INFO |-> {<<"text">>}, WARN |-> {<<"text">>},
      ERROR |-> {<<"text">>}, CRITICAL |-> {<<"text">>} ]

\* the list that service_messages.get(level, ...) falls back to
generic_level_messages == {<<"text">>}

\* the service and level arguments the generate methods pass
MessageServices ==
    {"checkout", "inventory", "payments", "search", "shipping",
     "auth", "mail", "daemon"}

MessageLevels ==
    {"DEBUG", "INFO", "NOTICE", "WARN", "ERROR", "CRITICAL", "FATAL", "ALERT",
     "EMERG", "debug", "info", "notice", "warn", "error", "critical"}

\* the modules that define _get_realistic_message
MessageModules == {"log_generators", "generate_logs"}

\* dict.get(key, default); the keys of a dict are the fields of the record
dict_get(d, key, default) == IF key \in DOMAIN d THEN d[key] ELSE default

\* a replace that leaves the message as it is
str_replace_nothing(message, old, new) == message

\* str.replace(old, new) on the pieces of a message
str_replace(message, old, new) ==
    [i \in DOMAIN message |-> IF message[i] = old THEN new ELSE message[i]]

\* the values the replacements draw, at both ends of their ranges
AmountValues == {"$10.00", "$999.99"}
ItemIdValues == {"item_1000", "item_9999"}
ProductIdValues == {"prod_10000", "prod_99999"}
UserIdValues == {"user_1000", "user_9999"}
TxnIdValues == {"txn_00000000", "txn_ffffffff"}
OrderIdValues == {"order_100000", "order_999999"}
TrackingIdValues == {"TRK0000000000", "TRKFFFFFFFFFF"}
QueryValues == {"laptop", "camera"}
CategoryValues == {"electronics", "sports"}
TimeValues == {"50", "2000"}

\* _get_realistic_message: every message a call can return
get_realistic_message(module, service, level) ==
    LET messages == IF module = "log_generators"
                    THEN messages_log_generators
                    ELSE messages_generate_logs
        service_messages == dict_get(messages, service, generic_service_messages)
        level_messages == dict_get(service_messages, level, generic_level_messages)
        replaced(m0) ==
            {str_replace(str_replace(str_replace(str_replace(str_replace(
             str_replace(str_replace(str_replace(str_replace(str_replace(m0,
                 "{amount}", amount), "{item_id}", item_id),
                 "{product_id}", product_id), "{user_id}", user_id),
                 "{txn_id}", txn_id), "{order_id}", order_id),
                 "{tracking_id}", tracking_id), "{query}", query),
                 "{category}", category), "{time}", time) :
                 amount \in AmountValues, item_id \in ItemIdValues,
                 product_id \in ProductIdValues, user_id \in UserIdValues,
                 txn_id \in TxnIdValues, order_id \in OrderIdValues,
                 tracking_id \in TrackingIdValues, query \in QueryValues,
                 category \in CategoryValues, time \in TimeValues}
    IN  UNION {replaced(m0) : m0 \in level_messages}

MessageInit ==
    /\ call_args \in [module : MessageModules, service : MessageServices,
                      level : MessageLevels]
    /\ call_pc = "call"
    /\ call_result = None

\* a call self._get_realistic_message(service, level)
GetRealisticMessage ==
    \E message \in get_realistic_message(call_args.module, call_args.service,
                                         call_args.level) :
        CallReturns(message)

MessageNext == GetRealisticMessage

----------------------------------------------------------------------------
(* EventCoordinator.get_error_code *)

\* error_codes lists: the default of EventConfig, another list, an empty one
GeneralErrorCodes == {<<403, 404, 500>>, <<429>>, <<>>}

\* a format's override block: absent, empty, without and with error_codes
OverrideBlocks ==
    {None, [k \in {} |-> 0], [total_logs |-> 1],
     [error_codes |-> <<500, 502, 503>>],
     [error_codes |-> <<401>>, total_logs |-> 1],
     [error_codes |-> <<>>]}

\* the format_type argument: the two formats with a block, and another one
ErrorCodeFormats == {"apache", "nginx", "json"}

\* the truth value of an Optional[Dict]
Truthy(config) == config # None /\ DOMAIN config # {}

\* random.choice(seq): any element; IndexError for an empty sequence
random_choice(seq) ==
    IF Len(seq) = 0
    THEN {[exc |-> "IndexError", val |-> 0]}
    ELSE {[exc |-> "none", val |-> seq[i]] : i \in 1..Len(seq)}

\* a get_error_code that ignores the override blocks
get_error_code_general(event, format_type) == random_choice(event.error_codes)

\* EventCoordinator.get_error_code: every outcome of a call
get_error_code(event, format_type) ==
    LET config == GetAttr(event, ConfigAttr(format_type), None)
        error_codes == IF Truthy(config)
                       THEN dict_get(config, "error_codes", event.error_codes)
                       ELSE event.error_codes
    IN  random_choice(error_codes)

ErrorCodeInit ==
    /\ call_args \in
           [event : [error_codes : GeneralErrorCodes,
                     apache_config : OverrideBlocks,
                     nginx_config : OverrideBlocks],
            format_type : ErrorCodeFormats]
    /\ call_pc = "call"
    /\ call_result = None

\* a call self.coordinator.get_error_code(event, format_type)
GetErrorCode ==
    \E o \in get_error_code(call_args.event, call_args.format_type) :
        CallReturns(o)

ErrorCodeNext == GetErrorCode

----------------------------------------------------------------------------
(* SyslogLogGenerator: the priority field and the line of generate.  A     *)
(* line is the sequence of its pieces; the digits of the priority field    *)
(* are one piece each.                                                     *)

\* priority_map of _get_syslog_priority
priority_map ==
    [ DEBUG |-> <<"7">>, INFO |-> <<"6">>, NOTICE |-> <<"5">>, WARN |-> <<"4">>,
      ERROR |-> <<"3">>, CRITICAL |-> <<"2">>, ALERT |-> <<"1">>,
      EMERG |-> <<"0">> ]

\* facility_map of _get_syslog_facility
facility_map ==
    [ checkout |-> <<"1", "6">>, inventory |-> <<"1", "7">>,
      payments |-> <<"1", "8">>, search |-> <<"1", "9">>,
      shipping |-> <<"2", "0">>, auth |-> <<"4">>, mail |-> <<"2">>,
      daemon |-> <<"3">>, kern |-> <<"0">> ]

\* SyslogLogGenerator._get_syslog_priority
get_syslog_priority(level) == dict_get(priority_map, level, <<"6">>)

\* SyslogLogGenerator._get_syslog_facility
get_syslog_facility(service) == dict_get(facility_map, service, <<"1", "6">>)

\* the level, service and hostname that generate picks
SyslogLevels ==
    {"DEBUG", "INFO", "NOTICE", "WARN", "ERROR", "CRITICAL", "ALERT", "EMERG"}

SyslogServices ==
    {"checkout", "inventory", "payments", "search", "shipping", "auth", "mail",
     "daemon"}

SyslogHostnames == {"app-1.cluster.local", "app-10.cluster.local"}

\* log_line of SyslogLogGenerator.generate
syslog_log_line(level, service, hostname) ==
    <<"SYSLOG_RFC5424 ", "<">>
        \o get_syslog_facility(service) \o get_syslog_priority(level)
        \o <<">", "1", " ", "timestamp", " ", hostname, " ",
             "loggen-" \o service, " ", "process_id", " ", "-", " ",
             "structured_data", " ", "message">>

SyslogInit ==
    /\ call_args \in [level : SyslogLevels, service : SyslogServices,
                      hostname : SyslogHostnames]
    /\ call_pc = "call"
    /\ call_result = None

\* one pass of the loop of SyslogLogGenerator.generate, up to log_line
SyslogLine ==
    CallReturns(syslog_log_line(call_args.level, call_args.service,
                                call_args.hostname))

SyslogNext == SyslogLine

----------------------------------------------------------------------------
(* run_concurrent with the generators at the sink: each job a generator    *)
(* that takes the lock for every line.  The six jobs on six workers of     *)
(* generate_logs.py are scaled to NumWriters jobs on as many workers, the  *)
(* registry's eleven jobs on six workers of enhanced_cli_example.py to     *)
(* NumWriters jobs on one worker less.                                     *)

PoolWorkers(module) ==
    IF module = "generate_logs" THEN NumWriters ELSE NumWriters - 1

\* the jobs a worker thread is running
RunningWriters(pcs) ==
    {w \in DOMAIN pcs : pcs[w] \in {"ready", "opened", "text_written"}}

\* a pool whose workers each run one job and then stop
IdleWorkersNoReuse(module, pcs) ==
    PoolWorkers(module) - Cardinality({w \in DOMAIN pcs : pcs[w] # "queued"})

\* the workers of the ThreadPoolExecutor that are not running a job
IdleWorkers(module, pcs) ==
    PoolWorkers(module) - Cardinality(RunningWriters(pcs))

PoolInit ==
    /\ impl \in Implementations
    /\ request = "all"
    /\ lines_per_format = LinesPerWriter
    /\ fault = 0
    /\ main_pc = "start"
    /\ job = <<>>
    /\ written = [f \in Glossary |-> 0]
    /\ status_log = {}
    /\ writer_pc = [w \in Writers |-> "unsubmitted"]
    /\ writer_line = [w \in Writers |-> 1]
    /\ writer_dest = [w \in Writers |-> "output_file"]
    /\ lock_holder = 0
    /\ files = [d \in Destinations |-> <<>>]

\* run_concurrent up to the end of the submission loop
PoolSubmit ==
    /\ main_pc = "start"
    /\ writer_pc' = [w \in Writers |-> "queued"]
    /\ main_pc' = "collect"
    /\ UNCHANGED <<impl, request, lines_per_format, fault, job, written,
                   status_log, writer_line, writer_dest, lock_holder, files,
                   besidePool>>

\* a worker thread takes the oldest queued job and calls its generate
PoolStart(w) ==
    /\ writer_pc[w] = "queued"
    /\ \A v \in Writers : v < w => writer_pc[v] # "queued"
    /\ IdleWorkers(impl, writer_pc) > 0
    /\ writer_pc' = [writer_pc EXCEPT ![w] = "ready"]
    /\ UNCHANGED <<runVars, writer_line, writer_dest, lock_holder, files,
                   besidePool>>

\* the loop over the futures and the exit of the with block: every job has
\* ended; in enhanced_cli_example.py a failed job's exception leaves
\* run_concurrent, in generate_logs.py it is caught and logged
PoolJoin ==
    /\ main_pc = "collect"
    /\ \A w \in Writers : writer_pc[w] \in {"done", "failed"}
    /\ main_pc' = IF /\ impl = "enhanced_cli_example"
                     /\ \E w \in Writers : writer_pc[w] = "failed"
                  THEN "raised" ELSE "returned"
    /\ UNCHANGED <<impl, request, lines_per_format, fault, job, written,
                   status_log, sinkVars, besidePool>>

\* the steps of the thread that runs job w
WriterStep(w) ==
    \/ PoolStart(w)
    \/ AcquireAndOpen(w)
    \/ WriteText(w)
    \/ WriteNewlineAndRelease(w)
    \/ WriteRaises(w)

PoolNext ==
    \/ PoolSubmit
    \/ \E w \in Writers : PoolStart(w)
    \/ SinkNext
    \/ PoolJoin

----------------------------------------------------------------------------
(* One job of generate_logs.py: generate_apache_logs, and the five other   *)
(* generate_*_logs methods, which differ in the fields of a line only      *)

MaxJobLines == 6   \* --lines is at most this

\* the lines_per_format a LogGenerator is constructed with: --lines is any int
JobLinesChoices == -2..MaxJobLines

\* LogGenerator._get_random_lines: the values a call can return
get_random_lines(lines) ==
    {o.value : o \in {r \in LogGenerator_randint(1, lines) : r.exc = "none"}}

JobInit ==
    /\ call_args \in [lines_per_format : JobLinesChoices]
    /\ call_pc = "call"
    /\ call_result = None

\* lines_to_generate = self._get_random_lines() and the start notification
JobStart ==
    /\ call_pc = "call"
    /\ \E n \in get_random_lines(call_args.lines_per_format) :
           call_result' = [lines_to_generate |-> n, announced |-> n, i |-> 0,
                           written |-> 0, completed |-> 0]
    /\ call_pc' = "loop"
    /\ UNCHANGED <<call_args, besideCall>>

\* one pass of `for i in range(1, lines_to_generate + 1)`: a line is written
JobWriteLine ==
    /\ call_pc = "loop"
    /\ call_result.i < call_result.lines_to_generate
    /\ call_result' = [call_result EXCEPT !.i = @ + 1, !.written = @ + 1]
    /\ UNCHANGED <<call_args, call_pc, besideCall>>

\* the loop is over: the completion notification
JobComplete ==
    /\ call_pc = "loop"
    /\ call_result.i >= call_result.lines_to_generate
    /\ call_result' = [call_result EXCEPT
                           !.completed = call_result.lines_to_generate]
    /\ call_pc' = "returned"
    /\ UNCHANGED <<call_args, besideCall>>

JobNext ==
    \/ JobStart
    \/ JobWriteLine
    \/ JobComplete

----------------------------------------------------------------------------
(* The coordinator under one generator per format: calls of                *)
(* get_active_event and of generate_log_line, one after the other, each    *)
(* noted with what it was given, what it returned and what it left behind  *)

\* the configurations: an event active from the start of the run for both
\* formats, with every choice of overrides, followed by a second event
CallEventLists ==
    {l \in EventLists :
        /\ Len(l) = 2
        /\ l[1].start_time = <<"+", "0", "m">>
        /\ l[1].affected_formats = <<"apache", "nginx">>
        /\ l[2].start_time = <<"+", "1", "m">>}

\* the formats get_active_event is asked about
QueryFormats == {"apache", "nginx", "json"}

CallsInit ==
    /\ events \in CallEventLists
    /\ start_time \in RunStarts
    /\ event_state = [id \in {events[i].id : i \in 1..Len(events)} |->
                          InitialEventState]
    /\ now = start_time
    /\ call_args = None
    /\ call_pc = "calls"
    /\ call_result = <<>>

\* a call self.coordinator.get_active_event(format_type, now), which assigns
\* to no attribute of the coordinator
QueryActiveEvent(format_type) ==
    LET r == get_active_event(events, event_state, start_time, format_type, now)
    IN  /\ call_pc = "calls"
        /\ Len(call_result) < MaxLogs
        /\ call_result' = Append(call_result,
               [kind |-> "query", format_type |-> format_type,
                current_time |-> now, before |-> event_state,
                after |-> event_state, evts |-> events, exc |-> r.exc,
                event |-> r.ev, ip |-> ""])
        /\ UNCHANGED <<coordVars, call_args, call_pc, besideCalls>>

\* a call generate_log_line(line_number, now) of the generator of format_type
LineGenerated(format_type) ==
    /\ call_pc = "calls"
    /\ Len(call_result) < MaxLogs
    /\ \E o \in generate_log_line(events, event_state, start_time,
                                   format_type, now) :
           /\ event_state' = o.st
           /\ call_result' = Append(call_result,
                  [kind |-> "line", format_type |-> format_type,
                   current_time |-> now, before |-> event_state,
                   after |-> o.st, evts |-> events, exc |-> o.exc,
                   event |-> o.event, ip |-> o.ip])
    /\ UNCHANGED <<events, start_time, now, call_args, call_pc, besideCalls>>

CallsNext ==
    \/ \E f \in QueryFormats : QueryActiveEvent(f)
    \/ \E f \in EventAwareFormats : LineGenerated(f)
    \/ Tick

----------------------------------------------------------------------------
(* The specifications *)

CoordIdle ==
    /\ events = <<>>
    /\ start_time \in RunStarts
    /\ event_state = [id \in {} |-> InitialEventState]
    /\ now = start_time

vars == <<coordVars, raceVars, runVars, sinkVars, durVars, synthVars,
          callVars>>

Init ==
    CoordInit /\ RaceIdle /\ RunIdle /\ SinkIdle /\ DurIdle /\ SynthIdle /\ CallIdle

Next == CoordNext

Spec == Init /\ [][Next]_vars

InitRace ==
    RaceInit /\ RunIdle /\ SinkIdle /\ DurIdle /\ SynthIdle /\ CallIdle

SpecRace == InitRace /\ [][RaceNext]_vars

InitRun ==
    CoordIdle /\ RaceIdle /\ RunInit /\ SinkIdle /\ DurIdle /\ SynthIdle /\ CallIdle

SpecRun == InitRun /\ [][RunNext]_vars

InitSink ==
    CoordIdle /\ RaceIdle /\ RunIdle /\ SinkInit /\ DurIdle /\ SynthIdle /\ CallIdle

SpecSink == InitSink /\ [][SinkNext]_vars

InitDuration ==
    CoordIdle /\ RaceIdle /\ DurInit /\ SinkIdle /\ SynthIdle /\ CallIdle

SpecDuration == InitDuration /\ [][DurNext]_vars

InitTimeSpec ==
    TimeSpecInit /\ RaceIdle /\ RunIdle /\ SinkIdle /\ DurIdle /\ SynthIdle /\ CallIdle

SpecTimeSpec == InitTimeSpec /\ [][CoordNext]_vars

InitSynth ==
    CoordIdle /\ RaceIdle /\ RunIdle /\ SinkIdle /\ DurIdle /\ SynthInit
    /\ CallIdle

SpecSynth == InitSynth /\ [][SynthNext]_vars

InitMessage ==
    CoordIdle /\ RaceIdle /\ RunIdle /\ SinkIdle /\ DurIdle /\ SynthIdle
    /\ MessageInit

SpecMessage == InitMessage /\ [][MessageNext]_vars

InitErrorCode ==
    CoordIdle /\ RaceIdle /\ RunIdle /\ SinkIdle /\ DurIdle /\ SynthIdle
    /\ ErrorCodeInit

SpecErrorCode == InitErrorCode /\ [][ErrorCodeNext]_vars

InitSyslog ==
    CoordIdle /\ RaceIdle /\ RunIdle /\ SinkIdle /\ DurIdle /\ SynthIdle
    /\ SyslogInit

SpecSyslog == InitSyslog /\ [][SyslogNext]_vars

InitCalls ==
    CallsInit /\ RaceIdle /\ RunIdle /\ SinkIdle /\ DurIdle /\ SynthIdle

SpecCalls == InitCalls /\ [][CallsNext]_vars

InitJob ==
    CoordIdle /\ RaceIdle /\ RunIdle /\ SinkIdle /\ DurIdle /\ SynthIdle
    /\ JobInit

SpecJob == InitJob /\ [][JobNext]_vars

InitPool ==
    CoordIdle /\ RaceIdle /\ PoolInit /\ DurIdle /\ SynthIdle /\ CallIdle

\* every thread that can take a step is scheduled eventually
PoolFairness ==
    /\ WF_vars(PoolSubmit)
    /\ WF_vars(PoolJoin)
    /\ \A w \in Writers : WF_vars(WriterStep(w))

SpecPool == InitPool /\ [][PoolNext]_vars /\ PoolFairness

----------------------------------------------------------------------------
(* Vocabulary of the properties of the coordinator *)

\* what get_active_event(format_type, t) returns in the current state
Returned(format_type, t) ==
    get_active_event(events, event_state, start_time, format_type, t)

\* the windows of the events, as the coordinator resolves them
Windows ==
    [i \in EventIndexes |->
        LET start == ParseStartTime(events[i].start_time, start_time).t
        IN  [from |-> start, to |-> start + events[i].duration_seconds]]

Inside(win, i, t) == win[i].from <= t /\ t <= win[i].to

Affects(i, format_type) == InList(format_type, events[i].affected_formats)

\* the override block of the i-th event for a format, None without one
Override(i, format_type) == GetAttr(events[i], ConfigAttr(format_type), None)

SetsTotalLogs(i, format_type) ==
    /\ Override(i, format_type) # None
    /\ "total_logs" \in DOMAIN Override(i, format_type)

\* the lines attributed so far to the i-th event for a format
Recorded(i, format_type) ==
    IF FormatKey(format_type) \in DOMAIN event_state[events[i].id]
    THEN Counter(i, format_type) ELSE 0

\* the i-th event has a cap for the format: a total_logs of at least one line
\* (what a total_logs of 0 does is the subject of C29)
HasCap(i, format_type) ==
    SetsTotalLogs(i, format_type) /\ Override(i, format_type).total_logs >= 1

UnderCap(i, format_type) ==
    HasCap(i, format_type) =>
        Recorded(i, format_type) < Override(i, format_type).total_logs

\* the format's own total_logs, whatever its value, is not yet reached
CapUnmet(i, format_type) ==
    SetsTotalLogs(i, format_type) =>
        Recorded(i, format_type) < Override(i, format_type).total_logs

Qualifies(win, i, format_type, t) ==
    Inside(win, i, t) /\ Affects(i, format_type) /\ UnderCap(i, format_type)

----------------------------------------------------------------------------
C3_Lifecycle ==
    LET win == Windows
    IN  \A F \in CallFormats :
            /\ \A t \in QueryTimes \cup {now} :
                   LET r == Returned(F, t)
                   IN  r.ev # 0 => Inside(win, r.ev, t)
            /\ \A i \in EventIndexes :
                   /\ Returned(F, win[i].from - 1).ev # i
                   /\ Returned(F, win[i].to + 1).ev # i
                   /\ now > win[i].to =>
                          \A t \in {u \in QueryTimes \cup {now} : u >= now} :
                              Returned(F, t).ev # i

\* an event that is returned at both ends of its window, has lines recorded
\* and has expired
C3_Witness ==
    \E i \in EventIndexes, F \in EventAwareFormats :
        /\ now > Windows[i].to
        /\ Recorded(i, F) >= 1
        /\ \E G \in CallFormats :
              /\ Returned(G, Windows[i].from).ev = i
              /\ Returned(G, Windows[i].to).ev = i

\* C4: recordLine works for every affected format.  For any event and any
\* format F of its affected_formats, record_log_generated(event.id, F)
\* completes without error and increases the counter of (event, F) by one.
C4_RecordEveryAffectedFormat ==
    \A i \in EventIndexes, F \in CallFormats :
        Affects(i, F) =>
            LET r == record_log_generated(event_state, events[i].id, F)
            IN  /\ r.exc = "none"
                /\ FormatKey(F) \in DOMAIN r.st[events[i].id]
                /\ r.st[events[i].id][FormatKey(F)] = Recorded(i, F) + 1

\* C5: no lost updates on event counters.  When several tasks call
\* record_log_generated concurrently for the same event, then under every
\* interleaving, once no call is in flight, each per-format counter equals
\* the number of calls made for that format.
C5_NoLostUpdates ==
    (\A t \in Tasks : task_pc[t] = "idle")
    => \A f \in EventAwareFormats : Counter(1, f) = calls_made[f]

----------------------------------------------------------------------------
(* Vocabulary of the properties of the run schedulers and the sink *)

RunEnded == main_pc \in {"returned", "raised"}

SomeJobFailed == \E j \in Jobs : job[j] = "failed"

\* the formats a run was asked to generate
Selected ==
    IF request = "all" THEN {JobList(impl)[j] : j \in Jobs} ELSE {request}

\* the run's jobs have a fixed target line count, not a drawn one
FixedTarget == TargetChoices(impl, lines_per_format) = {lines_per_format}

\* the writers inside the append of destination d
InsideAppend(d) ==
    {w \in Writers : writer_pc[w] \in {"opened", "text_written"} /\ writer_dest[w] = d}

\* destination d holds whole lines only: a text is followed at once by its
\* own newline, unless it is the last piece and its writer is still inside
\* the append
WholeLines(d) ==
    LET f == files[d]
    IN \A i \in 1..Len(f) :
           IF f[i].part = "text"
              THEN IF i < Len(f)
                      THEN /\ f[i + 1].part = "newline"
                           /\ f[i + 1].by = f[i].by
                           /\ f[i + 1].line = f[i].line
                      ELSE f[i].by \in InsideAppend(d) /\ writer_pc[f[i].by] = "text_written"
              ELSE /\ i > 1
                   /\ f[i - 1].part = "text"
                   /\ f[i - 1].by = f[i].by
                   /\ f[i - 1].line = f[i].line

\* C6: isolated job failure.  When a job of run_concurrent has raised and the
\* run has ended, the failure is logged with the failing format's name, every
\* sibling job has run to completion, and run_concurrent has returned normally
\* (so that a duration loop around it goes on to its next iteration).
C6_IsolatedJobFailure ==
    (request = "all" /\ RunEnded /\ SomeJobFailed)
    => /\ main_pc = "returned"
       /\ \A j \in Jobs : job[j] = "failed" => FailureLogged(j)
       /\ \A j \in Jobs : j # fault => job[j] = "done"

\* C7: mutual exclusion on the output sink.  At most one task at a time is
\* inside the append of a destination, and under every interleaving each
\* destination consists of whole lines only, each line and its newline written
\* by one task.
C7_SinkMutualExclusion ==
    \A d \in Destinations :
        /\ Cardinality(InsideAppend(d)) <= 1
        /\ WholeLines(d)

\* C7 witness: all writers are done and in the output file a line of one
\* writer stands between two lines of another.
C7_Witness ==
    /\ \A w \in Writers : writer_pc[w] = "done"
    /\ \E i \in 1..Len(files["output_file"]) :
           /\ i + 4 <= Len(files["output_file"])
           /\ files["output_file"][i].part = "text"
           /\ files["output_file"][i].by # files["output_file"][i + 2].by
           /\ files["output_file"][i].by = files["output_file"][i + 4].by

\* C8: exact line counts end to end.  When a run with a fixed target of
\* lines_per_format lines per format, in which no job failed, has returned,
\* the destination holds exactly lines_per_format lines of every selected
\* format.
C8_ExactLineCounts ==
    (main_pc = "returned" /\ ~SomeJobFailed /\ FixedTarget)
    => \A f \in Selected : written[f] = lines_per_format

\* C9: worker pool sized to the format count.  run_concurrent runs one job per
\* format on a pool whose size is the number of those formats, so no job is
\* left queued because every worker is busy.
C9_PoolSizedToFormats ==
    (request = "all" /\ main_pc # "start")
    => /\ Cardinality({JobList(impl)[j] : j \in Jobs}) = Len(job)
       /\ \A j \in Jobs : job[j] = "queued" => RunningCount < max_workers

\* C10: final join.  run_concurrent has returned, normally or by raising, only
\* when every job it submitted has completed or failed: none is still queued
\* or running.
C10_FinalJoin ==
    (request = "all" /\ RunEnded)
    => \A j \in Jobs : job[j] \in {"done", "failed"}

\* C10 witness: run_concurrent has left by raising, one job failed, and the
\* jobs submitted after the failed one have all completed.
C10_Witness ==
    /\ request = "all"
    /\ main_pc = "raised"
    /\ \E j \in Jobs : job[j] = "failed" /\ j < Len(job)
    /\ \A j \in Jobs : job[j] \in {"done", "failed"}

\* C15: an unknown format fails fast.  When the scheduler was asked for a
\* format name that is not registered, the call ends in an error raised to
\* the caller, no line is written and the run is not logged as finished.
C15_UnknownFormatFailsFast ==
    (impl = "enhanced_cli_example" /\ request # "all"
        /\ ~InList(request, LOG_GENERATORS) /\ main_pc # "start")
    => /\ main_pc = "raised"
       /\ \A f \in Glossary : written[f] = 0
       /\ <<"format finished", request>> \notin status_log

\* C17: the run reports per-format outcomes.  After run_concurrent a format is
\* logged as failed exactly if its job failed, and the final summary does not
\* say that all formats finished when some job failed.
C17_PerFormatOutcomes ==
    (request = "all" /\ RunEnded)
    => /\ \A j \in Jobs : FailureLogged(j) <=> job[j] = "failed"
       /\ SomeJobFailed => <<"All formats finished">> \notin status_log

----------------------------------------------------------------------------
(* Vocabulary of the properties of run_with_duration *)

DurationEnded == dur_pc \in {"finished", "raised"}

\* run_with_duration is between two iterations, or past the last one
BetweenIterations == dur_pc \in {"loop_check", "pausing", "finished"}

\* C11: no mid-iteration cancellation.  No iteration of run_with_duration is
\* started once the deadline has passed, and every iteration that started
\* runs its jobs to the end even when the deadline passes during it: between
\* iterations every job that did not fail is done, the jobs of a run of fixed
\* target have each written lines_per_format lines per iteration.
C11_NoMidIterationCancellation ==
    /\ late_starts = {}
    /\ (BetweenIterations /\ iterations_started >= 1 /\ request = "all")
       => /\ iterations_completed = iterations_started
          /\ \A j \in Jobs : j # fault => job[j] = "done"
          /\ (FixedTarget /\ fault = 0)
             => \A f \in Selected :
                    written[f] = iterations_completed * lines_per_format

\* C11 witness: the deadline passed during the second iteration, which ran
\* all its jobs; run_with_duration has finished after it.
C11_Witness ==
    /\ dur_pc = "finished"
    /\ request = "all"
    /\ fault = 0
    /\ expired
    /\ iterations_started = 2
    /\ iterations_completed = 2
    /\ remained_after = {1}
    /\ \A j \in Jobs : job[j] = "done"

\* C12: the iteration count is tracked faithfully.  When run_with_duration
\* finishes, the iteration count it reports is the number of iterations it
\* started and completed.
C12_IterationCountFaithful ==
    dur_pc = "finished"
    => /\ reported = iterations_completed
       /\ reported = iterations_started

\* C13: the duration scenario.  For a positive duration and pause 0, with no
\* failing job, run_with_duration ends by finishing, having completed at
\* least one iteration and reporting a count of at least 1, and it started
\* no iteration and slept no pause after the deadline.
C13_DurationScenario ==
    (duration > 0 /\ pause_seconds = 0 /\ fault = 0 /\ DurationEnded)
    => /\ dur_pc = "finished"
       /\ iterations_completed >= 1
       /\ reported >= 1
       /\ late_starts = {}
       /\ slept_after = {}

\* C14: the inter-iteration pause.  The scheduler sleeps only after a
\* completed iteration after which time remained, so never before the first
\* iteration and never when no time remained; with a positive pause_seconds
\* it has slept after every such iteration by the time the next one is
\* decided on.
C14_InterIterationPause ==
    /\ slept_after \subseteq remained_after
    /\ remained_after \subseteq 1..iterations_completed
    /\ pause_seconds > 0
       => IF dur_pc = "pausing"
             THEN remained_after \ slept_after = {iterations_completed}
             ELSE remained_after \subseteq slept_after
    /\ dur_pc = "in_run" => slept_after \subseteq 1..(iterations_started - 1)

\* C14 witness: a second iteration runs after the pause that followed the
\* first.
C14_Witness ==
    /\ pause_seconds > 0
    /\ dur_pc = "in_run"
    /\ iterations_started = 2
    /\ slept_after = {1}

----------------------------------------------------------------------------
(* Vocabulary of the properties of start_time strings *)

\* what the configuration's start_time string says
SpecOf(i) == CHOOSE s \in TimeSpecs : s.text = events[i].start_time

\* C16: an invalid time spec fails fast.  Once a coordinator is constructed,
\* no call of get_active_event made during generation fails because of a
\* time spec: the call for any event-aware format at the current time does
\* not raise.
C16_InvalidTimeSpecFailsFast ==
    \A f \in EventAwareFormats :
        get_active_event(events, event_state, start_time, f, now).exc = "none"

\* C18: relative start time resolution.  For a coordinator constructed with
\* run start T0, an event with start_time "+Nm" is returned for exactly the
\* times of [T0 + 60*N, T0 + 60*N + duration_seconds], whatever the wall
\* clock is when get_active_event is called.
C18_RelativeStartTime ==
    \A i \in EventIndexes :
        SpecOf(i).kind = "relative"
        => LET lo == start_time + 60 * SpecOf(i).minutes
               hi == lo + events[i].duration_seconds
           IN  \A f \in EventAwareFormats, t \in {lo - 1, lo, lo + 1, hi, hi + 1} :
                   LET r == get_active_event(events, event_state, start_time, f, t)
                   IN  /\ r.exc = "none"
                       /\ r.ev = i <=> (lo <= t /\ t <= hi)

\* C18 witness: the event starts at "+2m", the wall clock has moved on from
\* the run start, and the event is returned at T0 + 120 s.
C18_Witness ==
    /\ Len(events) = 1
    /\ SpecOf(1).kind = "relative"
    /\ SpecOf(1).minutes = 2
    /\ now > start_time
    /\ get_active_event(events, event_state, start_time, "apache",
                        start_time + 120).ev = 1

----------------------------------------------------------------------------
(* Vocabulary of the properties of the event-aware generators *)

\* the outcomes of generate_log_line for format_type at time t
Lines(format_type, t) ==
    generate_log_line(events, event_state, start_time, format_type, t)

\* st differs from event_state by one more log of format_type for event i
RecordedOnce(st, i, format_type) ==
    st = [event_state EXCEPT ![events[i].id][FormatKey(format_type)] = @ + 1]

\* C19: cross-format correlation.  A line that an event-aware generator
\* produces when get_active_event returns event E for its format carries E's
\* ip and is counted once for E and that format, so the event lines of one
\* event have the same IP in both formats; a line produced when no event is
\* active is counted for no event.
C19_CrossFormatCorrelation ==
    /\ \A f \in EventAwareFormats :
           \A o \in Lines(f, now) :
               /\ o.exc = "none"
               /\ o.event = Returned(f, now).ev
               /\ IF o.event # 0
                     THEN /\ o.ip = events[o.event].ip
                          /\ RecordedOnce(o.st, o.event, f)
                     ELSE o.st = event_state
    /\ \A t \in QueryTimes :
           \A o1 \in Lines("apache", now), o2 \in Lines("nginx", t) :
               (o1.event # 0 /\ o1.event = o2.event) => o1.ip = o2.ip

\* C19 witness: a line of each format was generated for the first event,
\* which both generators still get at the current time.
C19_Witness ==
    /\ Counter(1, "apache") >= 1
    /\ Counter(1, "nginx") >= 1
    /\ \E o1 \in Lines("apache", now), o2 \in Lines("nginx", now) :
           o1.event = 1 /\ o2.event = 1

----------------------------------------------------------------------------
(* Vocabulary of the properties of _randint *)

SynthMin == IF synth_low <= synth_high THEN synth_low ELSE synth_high

SynthMax == IF synth_low <= synth_high THEN synth_high ELSE synth_low

\* C20: randomInt bounds.  A call _randint(low, high) of either class does not
\* raise and returns a value between the smaller and the larger of its
\* arguments, whichever is given first.
C20_RandintBounds ==
    synth_pc \in {"returned", "raised"} =>
        /\ synth_pc = "returned"
        /\ SynthMin <= synth_value
        /\ synth_value <= SynthMax

----------------------------------------------------------------------------
(* Vocabulary of the properties of _get_realistic_message *)

\* the table of a module
MessagesOf(module) ==
    IF module = "log_generators"
    THEN messages_log_generators
    ELSE messages_generate_logs

\* every template a call can select
SelectableTemplates ==
    UNION {UNION {MessagesOf(module)[service][level] :
                      level \in DOMAIN MessagesOf(module)[service]} :
               module \in MessageModules,
               service \in DOMAIN MessagesOf("log_generators")}
    \cup UNION {generic_service_messages[level] :
                    level \in DOMAIN generic_service_messages}
    \cup generic_level_messages

\* the "{name}" pieces that occur in some template
Placeholders ==
    UNION {{m0[i] : i \in DOMAIN m0} : m0 \in SelectableTemplates} \ {"text"}

\* C21: realisticMessage is total and fully substituted.  Every call of
\* _get_realistic_message, for known and unknown services and levels,
\* returns a non-empty message in which no placeholder of any template
\* remains.
C21_RealisticMessageSubstituted ==
    /\ call_pc = "call" =>
           get_realistic_message(call_args.module, call_args.service,
                                 call_args.level) # {}
    /\ call_pc = "returned" =>
           /\ Len(call_result) > 0
           /\ \A i \in DOMAIN call_result :
                  call_result[i] # "" /\ call_result[i] \notin Placeholders

\* C21 witness: a template with a placeholder was selected and returned with
\* the value in the placeholder's place
C21_Witness ==
    /\ call_pc = "returned"
    /\ call_args.service = "checkout"
    /\ call_args.level = "INFO"
    /\ call_result = <<"text", "order_999999", "text">>

----------------------------------------------------------------------------
(* Vocabulary of the properties of get_error_code *)

\* the override block of the call's format, None when it has none
OverrideBlock ==
    GetAttr(call_args.event, ConfigAttr(call_args.format_type), None)

\* whether that block defines error_codes
BlockDefinesCodes ==
    OverrideBlock # None /\ "error_codes" \in DOMAIN OverrideBlock

\* the effective list of codes of the call
EffectiveCodes ==
    IF BlockDefinesCodes
    THEN OverrideBlock.error_codes
    ELSE call_args.event.error_codes

\* C22: error-code selection honours overrides.  A call of get_error_code
\* returns a member of the format's override error_codes when the block
\* defines them and of the event's general error_codes otherwise, never a
\* code outside that list; it raises only when the list is empty.
C22_ErrorCodeHonoursOverrides ==
    call_pc = "returned" =>
        IF EffectiveCodes = <<>>
        THEN call_result.exc = "IndexError"
        ELSE /\ call_result.exc = "none"
             /\ InList(call_result.val, EffectiveCodes)

\* C22 witness: a code of the apache override was returned for an event
\* whose general codes do not contain it
C22_Witness ==
    /\ call_pc = "returned"
    /\ call_args.format_type = "apache"
    /\ call_args.event.error_codes = <<403, 404, 500>>
    /\ BlockDefinesCodes
    /\ call_result.exc = "none"
    /\ call_result.val = 502

----------------------------------------------------------------------------
(* Vocabulary of the properties of the syslog line *)

\* the position of the first piece of line that equals piece, 0 if none
FirstIndex(line, piece) ==
    IF \E i \in DOMAIN line : line[i] = piece
    THEN CHOOSE i \in DOMAIN line :
             line[i] = piece /\ \A j \in 1..(i - 1) : line[j] # piece
    ELSE 0

\* the digits between the first "<" and the first ">" of line
PriDigits(line) ==
    SubSeq(line, FirstIndex(line, "<") + 1, FirstIndex(line, ">") - 1)

\* C23: syslog framing.  Every line of the syslog generator starts with the
\* "<" of its priority field, followed by the priority value
\* facility * 8 + severity, a number of 0..191, and ">1 ".
C23_SyslogFraming ==
    call_pc = "returned" =>
        LET line == call_result
            pri == PriDigits(line)
            facility == DigitsValue(get_syslog_facility(call_args.service))
            severity == DigitsValue(get_syslog_priority(call_args.level))
        IN  /\ line[1] = "<"
            /\ IsDigits(pri)
            /\ DigitsValue(pri) = 8 * facility + severity
            /\ DigitsValue(pri) \in 0..191
            /\ SubSeq(line, FirstIndex(line, ">"), FirstIndex(line, ">") + 2)
                   = <<">", "1", " ">>

----------------------------------------------------------------------------
(* Vocabulary of the properties of the sink lock *)

\* writer w is inside the with blocks of _write_log or _write_syslog_file
InsideWith(w) == writer_pc[w] \in {"opened", "text_written"}

\* C24: the sink lock is held only for the append.  A generator holds the
\* lock exactly while it is inside the append of a line: not while it
\* prepares a line, not between two lines, not after its job has ended, and
\* not after its write has failed, so that the lock is free for its siblings.
C24_LockHeldOnlyForAppend ==
    /\ \A w \in Writers : lock_holder = w <=> InsideWith(w)
    /\ lock_holder # 0 => lock_holder \in Writers
    /\ (\A w \in Writers : ~InsideWith(w)) => lock_holder = 0

\* C24 witness: after the write of one generator failed, a sibling appended
\* all its lines
C24_Witness ==
    \E w \in Writers, v \in Writers :
        /\ writer_pc[w] = "failed"
        /\ writer_pc[v] = "done"
        /\ \E i \in 1..Len(files["output_file"]) :
               /\ files["output_file"][i].by = v
               /\ files["output_file"][i].line = LinesPerWriter
               /\ \A j \in 1..i : files["output_file"][j].by # w

----------------------------------------------------------------------------
(* Vocabulary of the properties of the pool at the sink *)

\* the lines of writer w appended to the output file
WrittenBy(w) ==
    Cardinality({i \in 1..Len(files["output_file"]) :
                    /\ files["output_file"][i].by = w
                    /\ files["output_file"][i].part = "newline"})

\* run_concurrent has ended and so has every job; a job that did not fail
\* took the lock for each of its lines and wrote it
PoolEnded ==
    /\ main_pc \in {"returned", "raised"}
    /\ lock_holder = 0
    /\ \A w \in Writers :
           /\ writer_pc[w] \in {"done", "failed"}
           /\ writer_pc[w] = "done" => WrittenBy(w) = LinesPerWriter
    /\ (\A w \in Writers : writer_pc[w] = "done") => main_pc = "returned"

\* C25: deadlock freedom and termination of a run.  Under fair scheduling,
\* with more jobs than workers, every job of run_concurrent starts and ends,
\* a job whose writes do not fail appends each of its lines under the lock,
\* and run_concurrent ends; it returns when no write failed.
C25_RunTerminates == <>[]PoolEnded

\* C25 witness: the run returned after the job that had to wait for a worker
\* wrote its lines
C25_Witness ==
    /\ NumWriters > PoolWorkers(impl)
    /\ main_pc = "returned"
    /\ WrittenBy(NumWriters) = LinesPerWriter
    /\ \E i \in 1..Len(files["output_file"]) :
           /\ files["output_file"][i].by = NumWriters
           /\ \E j \in 1..i : files["output_file"][j].by # NumWriters

----------------------------------------------------------------------------
(* Vocabulary of the properties of a job of generate_logs.py *)

\* C26: the target line count is drawn once per job.  For every configured
\* lines_per_format the target of a job of generate_logs.py lies in
\* 1..lines_per_format; the job writes no more lines than that, and when it
\* has returned, the lines announced at the start, the lines written and the
\* lines announced at completion are the same number.
C26_TargetDrawnOnce ==
    /\ call_pc \in {"loop", "returned"} =>
           /\ call_result.lines_to_generate \in 1..call_args.lines_per_format
           /\ call_result.written <= call_result.lines_to_generate
    /\ call_pc = "returned" =>
           /\ call_result.announced = call_result.written
           /\ call_result.completed = call_result.written

----------------------------------------------------------------------------
(* Vocabulary of the properties of the noted calls *)

Calls == 1..Len(call_result)

\* st2 is st1 with one more log of format_type for the event with id
OneCounterMore(st1, st2, id, format_type) ==
    st2 = [st1 EXCEPT ![id][FormatKey(format_type)] = @ + 1]

EventLines(i, format_type) ==
    Cardinality({c \in Calls : /\ call_result[c].kind = "line"
                               /\ call_result[c].format_type = format_type
                               /\ call_result[c].event = i})

\* whether the override of event i for format_type sets total_logs
SetsCap(i, format_type) ==
    LET config == GetAttr(events[i], ConfigAttr(format_type), None)
    IN  config # None /\ "total_logs" \in DOMAIN config

\* C28: counter invariant of event-aware generation.  In every sequence of
\* generate_log_line calls, the counter of an event and a format equals the
\* number of event-flavored lines produced for them so far and never exceeds
\* the total_logs the event's override sets for the format.
C28_CounterInvariant ==
    \A i \in EventIndexes, f \in EventAwareFormats :
        /\ Counter(i, f) = EventLines(i, f)
        /\ SetsCap(i, f) =>
               Counter(i, f) <= GetAttr(events[i], ConfigAttr(f), None).total_logs

\* C29: a cap of zero is enforced like any other cap.  An event whose
\* override for format F sets total_logs = 0 is returned by
\* get_active_event(F, t) for no t.
C29_ZeroCapEnforced ==
    \A i \in EventIndexes, F \in CallFormats :
        (SetsCap(i, F) /\ GetAttr(events[i], ConfigAttr(F), None).total_logs = 0)
        => \A t \in QueryTimes : Returned(F, t).ev # i

\* the lines the jobs of this call appended to the destination
TotalWritten ==
    LET RECURSIVE Sum(_)
        Sum(S) == IF S = {} THEN 0
                  ELSE LET f == CHOOSE x \in S : TRUE
                       IN  written[f] + Sum(S \ {f})
    IN  Sum(Glossary)

\* the jobs run_concurrent ran to their end
JobsRan == Cardinality({j \in Jobs : Finished(j)})

\* C30: reported totals match what was written.  The number of formats and
\* the total line count that run_concurrent announces and reports on
\* completion equal the number of format jobs it ran and the number of lines
\* those jobs appended to the destination in that call.
C30_ReportedTotalsMatch ==
    (request = "all" /\ main_pc = "returned") =>
        \A t \in status_log :
            /\ t[1] = "Concurrent generation" => t[4] = JobsRan
            /\ (t[1] = "Concurrent generation" /\ t[2] = "total lines")
                   => t[3] = TotalWritten
            /\ t[1] = "Total lines" => t[2] = TotalWritten

=============================================================================
